---- MODULE Spec2Model ----
(***************************************************************************)
(* linkerd-await: the readiness gate, the supervision of the forked child  *)
(* and the proxy-shutdown notification of src/src/main.rs, as a state      *)
(* machine.  One action per step of main, await_ready, fork_with_sigterm,  *)
(* send_shutdown and exec, plus the environment: the admin endpoint, the   *)
(* clock, the child process and SIGTERM delivery.                          *)
(*                                                                         *)
(* Durations are whole ticks of one second.  Timers count down: -1 (Off)   *)
(* is a timer that is not armed, 0 one that is due.                        *)
(***************************************************************************)
EXTENDS Integers, Sequences, FiniteSets, TLC

\* ----------------------------------------------------------------- bounds
\* Largest configured overall timeout, in ticks.
MaxTimeout == 2
\* Largest configured backoff, in ticks.
MaxBackoff == 1
\* GET /ready requests one run may issue (the loop itself is unbounded).
MaxRequests == 3
\* SIGTERMs the environment delivers to the supervisor in one run.
MaxSigterms == 2
\* Longest option value of which every string is parsed.
MaxArgLen == 3

\* ------------------------------------------------------ program constants
EX_OSERR == 71
EX_UNAVAILABLE == 69
\* await_ready's per-attempt timeout, in seconds.
TIMEOUT == 5

None == -1
Off == -1

\* Values of an environment variable: not set, set to "", set to "1".
EnvVals == {"unset", "", "1"}
\* The disable reason main holds: not looked up yet, none, or the value of
\* the variable that gave it, tagged with the variable.
NoReason == <<"none", "">>
Unread == <<"unread", "">>
\* HTTP status codes the endpoints answer with.
Statuses == {199, 200, 204, 299, 300, 404, 503}
\* How a child terminates: exit(code), or death by a signal (with or
\* without a core dump).
Terminations ==
    [kind : {"code"}, val : {0, 7, 255}, core : {FALSE}]
        \cup [kind : {"signal"}, val : {15}, core : {FALSE}]
        \cup [kind : {"signal"}, val : {11}, core : {TRUE}]
NoTermination == [kind |-> "none", val |-> 0, core |-> FALSE]

\* Args, as clap hands it to main.  --shutdown requires CMD, and so does an
\* explicit --timeout-fatal (the only way to make it false).  The verbose
\* flag is read in one place only, SkipDisabled, and is drawn there.
Configs ==
    {c \in [timeout : {None} \cup (0..MaxTimeout),
            timeoutFatal : BOOLEAN, shutdown : BOOLEAN, hasCmd : BOOLEAN,
            backoff : 0..MaxBackoff] :
        /\ c.shutdown => c.hasCmd
        /\ ~c.timeoutFatal => c.hasCmd}

VARIABLES
    cfg,          \* Args
    reason,       \* the result of linkerd_disabled_reason()
    envDisable,   \* LINKERD_AWAIT_DISABLED or LINKERD_DISABLED was not empty
    pc,           \* where main is
    deadline,     \* await_timeout's sleep: Off, or ticks left
    poller,       \* await_ready: "idle", "inflight", "sleeping", "dropped"
    reqTimer,     \* time::timeout(TIMEOUT, get): Off, or ticks left
    sleepTimer,   \* time::sleep(backoff): Off, or ticks left
    requests,     \* GET /ready requests issued
    notReady,     \* attempts that ended 'not ready'
    sleeps,       \* backoff sleeps started
    sleptTotal,   \* sum of the durations of the sleeps started
    elapsed,      \* ticks counted by the deadline timer since it was armed
    gate,         \* how the gate ended: "none", "skipped", "ready", "timeout"
    launched,     \* how CMD was launched: "none", "spawn", "exec"
    child,        \* "none", "running", "zombie", "reaped", "spawn_failed"
    childEnd,     \* how the child terminated
    handler,      \* the SIGTERM handler is installed
    sigPending,   \* the signal stream holds an undelivered notification
    sigDelivered, \* SIGTERMs the environment sent to the supervisor
    sigLost,      \* SIGTERMs that found a running child and no handler
    sigRunning,   \* a SIGTERM reached the supervisor while the child ran
    kills,        \* kill(pid, SIGTERM) calls made
    forkResult,   \* what fork_with_sigterm returned
    posts,        \* POST /shutdown requests issued
    reply,        \* what the shutdown endpoint does with the request
    exitCode,     \* the process's exit code, None while it runs
    got2xx,       \* a GET /ready was answered with a status in 200..299
    diag,         \* diagnostics written to stderr
    arg,          \* the option value handed to parse_duration
    parsed        \* what parse_duration returned for it: <<>> until called

vars == <<cfg, reason, envDisable, pc, deadline, poller, reqTimer, sleepTimer,
          requests, notReady, sleeps, sleptTotal, elapsed, gate, launched,
          child, childEnd, handler, sigPending, sigDelivered, sigLost,
          sigRunning, kills, forkResult, posts, reply, exitCode, got2xx,
          diag, arg, parsed>>

gateVars == <<deadline, poller, reqTimer, sleepTimer, requests, notReady,
              sleeps, sleptTotal, elapsed, gate, got2xx>>
childVars == <<child, childEnd, handler, sigPending, sigDelivered, sigLost,
               sigRunning, kills, forkResult>>

\* ---------------------------------------------------------- pure helpers

\* linkerd_disabled_reason: LINKERD_AWAIT_DISABLED if set and not empty,
\* else LINKERD_DISABLED if set and not empty, else no reason.
linkerd_disabled_reason(awaitDisabled, linkerdDisabled) ==
    IF awaitDisabled # "unset" /\ awaitDisabled # ""
    THEN <<"LINKERD_AWAIT_DISABLED", awaitDisabled>>
    ELSE IF linkerdDisabled # "unset" /\ linkerdDisabled # ""
         THEN <<"LINKERD_DISABLED", linkerdDisabled>>
         ELSE NoReason

\* A readiness test that also takes redirects for success.
is_success_upto_399(s) == s >= 200 /\ s < 400

\* StatusCode::is_success: 200 <= status < 300.
is_success(s) == s >= 200 /\ s < 300

\* The wait status the OS reports for a termination (WEXITSTATUS in bits
\* 8..15, the signal in bits 0..6, the core flag in bit 7).
WaitStatus(t) ==
    IF t.kind = "code" THEN t.val * 256
    ELSE t.val + (IF t.core THEN 128 ELSE 0)

\* ExitStatus::code: Some(WEXITSTATUS) when WIFEXITED, else None.
StatusCodeOf(raw) ==
    IF raw % 128 = 0 THEN (raw \div 256) % 256 ELSE None

\* A policy that reads the exit-status byte without asking whether the
\* child exited.
ExitPolicyUnchecked(res) ==
    IF res.ok THEN (res.raw \div 256) % 256 ELSE EX_OSERR

\* main's exit-code policy over fork_with_sigterm's result.
ExitPolicy(res) ==
    IF res.ok /\ StatusCodeOf(res.raw) # None THEN StatusCodeOf(res.raw)
    ELSE EX_OSERR

\* Child::id: the pid while the child has not been waited to completion.
ChildHasId == child \in {"running", "zombie"}

NoResult == [ok |-> FALSE, raw |-> None]
Terminal == {"exited", "execed", "killed"}

\* ------------------------------------------------------- parse_duration

\* Strings are sequences of one-character strings.  A u64 is held as the
\* sequence of its decimal digits, most significant first, without leading
\* zeros (zero is <<0>>); NoU64 stands for a failed conversion or product.
NoU64 == <<>>

\* u64::MAX, 18446744073709551615.
U64_MAX == <<1, 8, 4, 4, 6, 7, 4, 4, 0, 7, 3, 7, 0, 9, 5, 5, 1, 6, 1, 5>>

\* char::is_whitespace, for the characters used here.
Whitespace == {" ", "\t", "\n"}

DigitChars == <<"0", "1", "2", "3", "4", "5", "6", "7", "8", "9">>

is_ascii_digit(c) == \E d \in 1..10 : DigitChars[d] = c

to_digit(c) == (CHOOSE d \in 1..10 : DigitChars[d] = c) - 1

RECURSIVE trim_start(_)
trim_start(s) ==
    IF s # <<>> /\ Head(s) \in Whitespace THEN trim_start(Tail(s)) ELSE s

RECURSIVE trim_end(_)
trim_end(s) ==
    IF s # <<>> /\ s[Len(s)] \in Whitespace
    THEN trim_end(SubSeq(s, 1, Len(s) - 1))
    ELSE s

\* str::trim
trim(s) == trim_end(trim_start(s))

\* s.rfind(|c| c.is_ascii_digit()): the offset, from 0, of the last digit,
\* or None.
rfind_ascii_digit(s) ==
    LET at == {i \in 1..Len(s) : is_ascii_digit(s[i])}
    IN  IF at = {} THEN None
        ELSE (CHOOSE i \in at : \A j \in at : j <= i) - 1

\* str::split_at
split_at(s, mid) == <<SubSeq(s, 1, mid), SubSeq(s, mid + 1, Len(s))>>

\* Leading zeros removed.
RECURSIVE Normal(_)
Normal(n) == IF Len(n) > 1 /\ Head(n) = 0 THEN Normal(Tail(n)) ELSE n

RECURSIVE LexLeq(_, _)
LexLeq(a, b) ==
    IF a = <<>> THEN TRUE
    ELSE IF Head(a) # Head(b) THEN Head(a) < Head(b)
    ELSE LexLeq(Tail(a), Tail(b))

\* a <= b, for digit sequences without leading zeros.
Leq(a, b) == IF Len(a) # Len(b) THEN Len(a) < Len(b) ELSE LexLeq(a, b)

\* u64::from_str: an optional "+", then decimal digits only, at least one;
\* a value above u64::MAX is an error.
u64_from_str(src) ==
    LET digits == IF Len(src) > 1 /\ Head(src) = "+" THEN Tail(src) ELSE src
        value == Normal([i \in 1..Len(digits) |-> to_digit(digits[i])])
    IN  IF \/ digits = <<>>
           \/ \E i \in 1..Len(digits) : ~is_ascii_digit(digits[i])
        THEN NoU64
        ELSE IF Leq(value, U64_MAX) THEN value ELSE NoU64

\* Minutes counted as seconds.
multiplier_minute_as_second(unit, magnitude) ==
    CASE unit = <<>> /\ magnitude = <<0>> -> 0
      [] unit = <<"m", "s">> -> 1
      [] unit = <<"s">> -> 1000
      [] unit = <<"m">> -> 1000
      [] unit = <<"h">> -> 1000 * 60 * 60
      [] unit = <<"d">> -> 1000 * 60 * 60 * 24
      [] OTHER -> None

\* match unit { ... }: milliseconds per unit, None for any other suffix and
\* for no suffix after a magnitude that is not zero.
multiplier(unit, magnitude) ==
    CASE unit = <<>> /\ magnitude = <<0>> -> 0
      [] unit = <<"m", "s">> -> 1
      [] unit = <<"s">> -> 1000
      [] unit = <<"m">> -> 1000 * 60
      [] unit = <<"h">> -> 1000 * 60 * 60
      [] unit = <<"d">> -> 1000 * 60 * 60 * 24
      [] OTHER -> None

Reverse(s) == [i \in 1..Len(s) |-> s[Len(s) + 1 - i]]

\* Long multiplication of a digit sequence, least significant digit first,
\* by k.
RECURSIVE MulCarry(_, _, _)
MulCarry(rev, k, carry) ==
    IF rev = <<>>
    THEN IF carry = 0 THEN <<>>
         ELSE <<carry % 10>> \o MulCarry(<<>>, k, carry \div 10)
    ELSE <<(Head(rev) * k + carry) % 10>>
         \o MulCarry(Tail(rev), k, (Head(rev) * k + carry) \div 10)

\* The product n * k, not bounded.
Mul(n, k) == Normal(Reverse(MulCarry(Reverse(n), k, 0)))

\* A product clamped at u64::MAX.
saturating_mul(n, k) ==
    IF Leq(Mul(n, k), U64_MAX) THEN Mul(n, k) ELSE U64_MAX

\* u64::checked_mul: the product when it is at most u64::MAX.
checked_mul(n, k) ==
    IF Leq(Mul(n, k), U64_MAX) THEN Mul(n, k) ELSE NoU64

InvalidDuration == [ok |-> FALSE, ms |-> NoU64]

\* parse_duration: Ok(Duration::from_millis(ms)) or Err(InvalidDuration).
parse_duration(s0) ==
    LET s == trim(s0)
        index == rfind_ascii_digit(s)
    IN  IF index = None THEN InvalidDuration
        ELSE LET parts == split_at(s, index + 1)
                 magnitude == u64_from_str(parts[1])
                 unit == parts[2]
             IN  IF magnitude = NoU64 THEN InvalidDuration
                 ELSE IF multiplier(unit, magnitude) = None
                 THEN InvalidDuration
                 ELSE IF checked_mul(magnitude,
                                     multiplier(unit, magnitude)) = NoU64
                 THEN InvalidDuration
                 ELSE [ok |-> TRUE,
                       ms |-> checked_mul(magnitude,
                                          multiplier(unit, magnitude))]

\* ------------------------------------------- the values that are parsed

\* Every string of at most MaxArgLen of these characters is parsed.
ParseAlphabet == {"0", "1", "+", " ", "m", "s", "h", "d", "x"}
ShortArgs == UNION {[1..n -> ParseAlphabet] : n \in 0..MaxArgLen}

\* The decimal string of a u64.
ToChars(n) == [i \in 1..Len(n) |-> DigitChars[n[i] + 1]]

\* Magnitudes around the limits: u64::MAX and its successor, and for each
\* unit the largest magnitude whose product fits and the next one.
MagnitudeValues ==
    {<<0>>, <<1>>, <<1, 0>>, <<1, 2>>, <<2, 4>>, <<1, 2, 3>>,
     U64_MAX,
     <<1, 8, 4, 4, 6, 7, 4, 4, 0, 7, 3, 7, 0, 9, 5, 5, 1, 6, 1, 6>>,
     <<1, 8, 4, 4, 6, 7, 4, 4, 0, 7, 3, 7, 0, 9, 5, 5, 1>>,
     <<1, 8, 4, 4, 6, 7, 4, 4, 0, 7, 3, 7, 0, 9, 5, 5, 2>>,
     <<3, 0, 7, 4, 4, 5, 7, 3, 4, 5, 6, 1, 8, 2, 5>>,
     <<3, 0, 7, 4, 4, 5, 7, 3, 4, 5, 6, 1, 8, 2, 6>>,
     <<5, 1, 2, 4, 0, 9, 5, 5, 7, 6, 0, 3, 0>>,
     <<5, 1, 2, 4, 0, 9, 5, 5, 7, 6, 0, 3, 1>>,
     <<2, 1, 3, 5, 0, 3, 9, 8, 2, 3, 3, 4>>,
     <<2, 1, 3, 5, 0, 3, 9, 8, 2, 3, 3, 5>>}

MagnitudeStrings ==
    {ToChars(n) : n \in MagnitudeValues}
        \cup {<<"0", "0", "7">>, <<"+", "5">>, <<"-", "5">>, <<"1", " ", "2">>}

UnitStrings == {<<"m", "s">>, <<"s">>, <<"m">>, <<"h">>, <<"d">>}

Suffixes == UnitStrings \cup {<<>>, <<"x">>, <<"S">>, <<" ", "s">>}

Pads == {<<>>, <<" ">>, <<"\t", "\n">>}

LongArgs ==
    {l \o m \o u \o r :
        l \in Pads, m \in MagnitudeStrings, u \in Suffixes, r \in Pads}

ParseInputs == ShortArgs \cup LongArgs \cup Pads

\* ------------------------------------------------------------------ Init
\* main has not started.
Started ==
    /\ reason = Unread
    /\ envDisable = FALSE
    /\ pc = "start"
    /\ deadline = Off
    /\ poller = "idle"
    /\ reqTimer = Off
    /\ sleepTimer = Off
    /\ requests = 0
    /\ notReady = 0
    /\ sleeps = 0
    /\ sleptTotal = 0
    /\ elapsed = 0
    /\ gate = "none"
    /\ launched = "none"
    /\ child = "none"
    /\ childEnd = NoTermination
    /\ handler = FALSE
    /\ sigPending = FALSE
    /\ sigDelivered = 0
    /\ sigLost = 0
    /\ sigRunning = FALSE
    /\ kills = 0
    /\ forkResult = NoResult
    /\ posts = 0
    /\ reply = "none"
    /\ exitCode = None
    /\ got2xx = FALSE
    /\ diag = {}

\* A run of main: the arguments are parsed, nothing has happened.
Init ==
    /\ cfg \in Configs
    /\ Started
    /\ arg = <<>>
    /\ parsed = <<>>

\* Args with every option at its default and no CMD.
DefaultArgs ==
    [timeout |-> None, timeoutFatal |-> TRUE, shutdown |-> FALSE,
     hasCmd |-> FALSE, backoff |-> 1]

\* clap is about to hand an option's value to parse_duration.
ParseInit ==
    /\ cfg = DefaultArgs
    /\ Started
    /\ arg \in ParseInputs
    /\ parsed = <<>>

\* The value parser of --backoff and --timeout: parse_duration is applied
\* to the value.
ParseArg ==
    /\ parsed = <<>>
    /\ parsed' = <<parse_duration(arg)>>
    /\ UNCHANGED <<arg, cfg, reason, envDisable, pc, launched, posts, reply,
                   exitCode, diag>>
    /\ UNCHANGED childVars
    /\ UNCHANGED gateVars


\* ------------------------------------------------------- main: the gate

\* Both futures of the select are dropped when one branch completes.
DropGate ==
    /\ deadline' = Off
    /\ poller' = "dropped"
    /\ reqTimer' = Off
    /\ sleepTimer' = Off

\* A deadline armed for every configured timeout, a zero one included.
AwaitTimeoutArmZero(c) ==
    IF c.timeout # None THEN c.timeout ELSE Off

\* The duration await_timeout sleeps for: the timeout when one is
\* configured and not zero; otherwise the future is pending for ever.
AwaitTimeoutArm(c) ==
    IF c.timeout # None /\ c.timeout # 0 THEN c.timeout ELSE Off

\* match linkerd_disabled_reason() { Some(reason) => ... }: the readiness
\* check is skipped, and main goes on after the match.
SkipDisabled ==
    /\ pc = "start"
    /\ \E a \in EnvVals, l \in EnvVals :
        /\ linkerd_disabled_reason(a, l) # NoReason
        /\ reason' = linkerd_disabled_reason(a, l)
        /\ envDisable' = (a = "1" \/ l = "1")
    /\ pc' = "after_match"
    /\ gate' = "skipped"
    /\ \E verbose \in BOOLEAN :
        diag' = IF verbose THEN diag \cup {"skipped"} ELSE diag
    /\ UNCHANGED <<arg, parsed, cfg, elapsed, deadline, poller, reqTimer,
                   sleepTimer, requests, notReady, sleeps, sleptTotal, got2xx,
                   launched, posts, reply, exitCode>>
    /\ UNCHANGED childVars

\* match ... { None => select! { await_ready, await_timeout } }: the first
\* poll of the select starts the first GET /ready and the deadline timer.
EnterGate ==
    /\ pc = "start"
    /\ \E a \in EnvVals, l \in EnvVals :
        /\ linkerd_disabled_reason(a, l) = NoReason
        /\ reason' = linkerd_disabled_reason(a, l)
        /\ envDisable' = (a = "1" \/ l = "1")
    /\ pc' = "gate"
    /\ deadline' = AwaitTimeoutArm(cfg)
    /\ poller' = "inflight"
    /\ reqTimer' = TIMEOUT
    /\ requests' = requests + 1
    /\ UNCHANGED <<arg, parsed, cfg, elapsed, sleepTimer, notReady, sleeps,
                   sleptTotal, gate, got2xx, launched, posts, reply, exitCode,
                   diag>>
    /\ UNCHANGED childVars

\* A backoff that grows with the number of failed attempts.
BackoffSleepGrowing(c, n) == c.backoff * n

\* The sleep the loop takes after an attempt that was not ready.
BackoffSleep(c, n) == c.backoff

\* await_ready's `_ => time::sleep(backoff).await` arm.
NotReadyStep ==
    /\ poller' = "sleeping"
    /\ reqTimer' = Off
    /\ sleepTimer' = BackoffSleep(cfg, notReady + 1)
    /\ notReady' = notReady + 1
    /\ sleeps' = sleeps + 1
    /\ sleptTotal' = sleptTotal + BackoffSleep(cfg, notReady + 1)
    /\ UNCHANGED <<arg, parsed, cfg, elapsed, reason, envDisable, pc,
                   deadline, requests, gate, got2xx, launched, posts, reply,
                   exitCode, diag>>
    /\ UNCHANGED childVars

\* await_ready returns: the select's first branch completes.
ReadyStep(s) ==
    /\ pc' = "after_gate"
    /\ gate' = "ready"
    /\ got2xx' = (s \in 200..299)
    /\ DropGate
    /\ UNCHANGED <<arg, parsed, cfg, elapsed, reason, envDisable, requests,
                   notReady, sleeps, sleptTotal, launched, posts, reply,
                   exitCode, diag>>
    /\ UNCHANGED childVars

\* The endpoint answers the GET in flight with status s: Ok(Ok(rsp)).
GetResponds ==
    /\ pc = "gate"
    /\ poller = "inflight"
    /\ \E s \in Statuses :
        IF is_success(s) THEN ReadyStep(s) ELSE NotReadyStep

\* The GET in flight fails (connection refused, reset, ...): Ok(Err(_)).
GetFails ==
    /\ pc = "gate"
    /\ poller = "inflight"
    /\ NotReadyStep

\* The per-attempt timeout elapses first: Err(Elapsed).
GetTimesOut ==
    /\ pc = "gate"
    /\ poller = "inflight"
    /\ reqTimer = 0
    /\ NotReadyStep

\* The backoff sleep is over: the loop issues the next GET /ready.
SleepDone ==
    /\ pc = "gate"
    /\ poller = "sleeping"
    /\ sleepTimer = 0
    /\ requests < MaxRequests
    /\ poller' = "inflight"
    /\ sleepTimer' = Off
    /\ reqTimer' = TIMEOUT
    /\ requests' = requests + 1
    /\ UNCHANGED <<arg, parsed, cfg, elapsed, reason, envDisable, pc,
                   deadline, notReady, sleeps, sleptTotal, gate, got2xx,
                   launched, posts, reply, exitCode, diag>>
    /\ UNCHANGED childVars

\* The fatal test inverted.
TimeoutExitInverted(c) == ~c.timeoutFatal

\* `if timeout_fatal { std::process::exit(EX_UNAVAILABLE) }`
TimeoutExit(c) == c.timeoutFatal

\* The select's second branch completes: the deadline timer is due.
TimeoutFires ==
    /\ pc = "gate"
    /\ deadline = 0
    /\ gate' = "timeout"
    /\ diag' = diag \cup {"timeout"}
    /\ DropGate
    /\ IF TimeoutExit(cfg)
       THEN pc' = "exited" /\ exitCode' = EX_UNAVAILABLE
       ELSE pc' = "after_gate" /\ exitCode' = exitCode
    /\ UNCHANGED <<arg, parsed, cfg, elapsed, reason, envDisable, requests,
                   notReady, sleeps, sleptTotal, got2xx, launched, posts,
                   reply>>
    /\ UNCHANGED childVars

\* One second passes.  The select is polled as soon as the deadline timer is
\* due, so no time passes while it is; the poller's timers may be served late.
Dec(t) == IF t > 0 THEN t - 1 ELSE t
Tick ==
    /\ pc = "gate"
    /\ deadline # 0
    /\ deadline > 0 \/ reqTimer > 0 \/ sleepTimer > 0
    /\ deadline' = Dec(deadline)
    /\ reqTimer' = Dec(reqTimer)
    /\ sleepTimer' = Dec(sleepTimer)
    /\ elapsed' = IF deadline > 0 THEN elapsed + 1 ELSE elapsed
    /\ UNCHANGED <<arg, parsed, cfg, reason, envDisable, pc, poller, requests,
                   notReady, sleeps, sleptTotal, gate, got2xx, launched,
                   posts, reply, exitCode, diag>>
    /\ UNCHANGED childVars

\* ------------------------------------------- fork_with_sigterm: the child

\* `if shutdown { fork_with_sigterm(cmd, args) }`, inside the None arm of
\* the match: Command::spawn succeeds.  No handler for SIGTERM is installed
\* yet.
\* Supervision entered only when the gate was passed by readiness.
SuperviseWhenReady(c) == c.shutdown /\ gate = "ready"

\* `if shutdown` after the gate: CMD is forked and supervised.
Supervise(c) == c.shutdown

SpawnOk ==
    /\ pc = "after_gate"
    /\ Supervise(cfg)
    /\ pc' = "spawned"
    /\ child' = "running"
    /\ launched' = "spawn"
    /\ UNCHANGED <<arg, parsed, cfg, reason, envDisable, posts, reply,
                   exitCode, diag>>
    /\ UNCHANGED <<childEnd, handler, sigPending, sigDelivered, sigLost,
                   sigRunning, kills, forkResult>>
    /\ UNCHANGED gateVars

\* The spawn error propagated to main instead of the status.
SpawnFailedError == [ok |-> FALSE, raw |-> None]

\* The status fork_with_sigterm returns when the spawn fails:
\* Ok(ExitStatus::from_raw(EX_OSERR)).
SpawnFailedResult == [ok |-> TRUE, raw |-> EX_OSERR]

\* Command::spawn fails: a diagnostic, and the sentinel status is returned
\* at once.
SpawnFails ==
    /\ pc = "after_gate"
    /\ Supervise(cfg)
    /\ pc' = "fork_returned"
    /\ child' = "spawn_failed"
    /\ launched' = "spawn"
    /\ forkResult' = SpawnFailedResult
    /\ diag' = diag \cup {"fork_failed"}
    /\ UNCHANGED <<arg, parsed, cfg, reason, envDisable, posts, reply,
                   exitCode>>
    /\ UNCHANGED <<childEnd, handler, sigPending, sigDelivered, sigLost,
                   sigRunning, kills>>
    /\ UNCHANGED gateVars

\* signal(SignalKind::terminate()): from here on a SIGTERM is queued on the
\* stream instead of taking its default disposition.
RegisterSigterm ==
    /\ pc = "spawned"
    /\ pc' = "select"
    /\ handler' = TRUE
    /\ UNCHANGED <<arg, parsed, cfg, reason, envDisable, launched, posts,
                   reply, exitCode, diag>>
    /\ UNCHANGED <<child, childEnd, sigPending, sigDelivered, sigLost,
                   sigRunning, kills, forkResult>>
    /\ UNCHANGED gateVars

\* What child.wait() yields once the child has terminated: its wait status,
\* or an error when the status cannot be collected.  While the child runs
\* the wait is pending.
WaitResults ==
    {[ok |-> TRUE, raw |-> WaitStatus(childEnd)], [ok |-> FALSE, raw |-> None]}

\* child.wait() completes: the child is reaped and fork_with_sigterm
\* returns.
Reap ==
    /\ child = "zombie"
    /\ child' = "reaped"
    /\ pc' = "fork_returned"
    /\ \E r \in WaitResults : forkResult' = r
    /\ UNCHANGED <<arg, parsed, cfg, reason, envDisable, launched, posts,
                   reply, exitCode, diag>>
    /\ UNCHANGED <<childEnd, handler, sigPending, sigDelivered, sigLost,
                   sigRunning, kills>>
    /\ UNCHANGED gateVars

\* select! { ex = child.wait() => ex, ... }
SelectChild ==
    /\ pc = "select"
    /\ Reap

\* The select entered again after the forward.
AfterForwardReenter == "select"

\* Returning right after the forward, without waiting for the child.
AfterForwardNoWait == "fork_returned"

\* Where fork_with_sigterm goes after forwarding the signal:
\* child.wait().await.
AfterForward == "wait_after_term"

\* A forwarder that is not bound to the select: it forwards any SIGTERM on
\* the stream, also once fork_with_sigterm has returned, and does not ask
\* the child handle for its pid.
SelectSigtermDetached ==
    /\ pc \in {"select", "fork_returned", "shutdown_wait"}
    /\ sigPending
    /\ sigPending' = FALSE
    /\ pc' = IF pc = "select" THEN "wait_after_term" ELSE pc
    /\ kills' = kills + 1
    /\ UNCHANGED <<arg, parsed, cfg, reason, envDisable, launched, posts,
                   reply, exitCode, diag>>
    /\ UNCHANGED <<child, childEnd, handler, sigDelivered, sigLost,
                   sigRunning, forkResult>>
    /\ UNCHANGED gateVars

\* The supervisor ended by a failed kill.
AfterKillErrorAbort == "exited"

\* Where fork_with_sigterm goes when kill returned an error: the error is
\* printed and the same child.wait().await follows.
AfterKillError == AfterForward

\* select! { ..., _ = sigterm.recv() => { kill(pid, SIGTERM); ... } }: the
\* signal is forwarded when the child still has a pid; a failure to deliver
\* it is reported and nothing else.
SelectSigterm ==
    /\ pc = "select"
    /\ sigPending
    /\ sigPending' = FALSE
    /\ IF ChildHasId
       THEN /\ kills' = kills + 1
            /\ \E delivered \in BOOLEAN :
                IF delivered
                THEN pc' = AfterForward /\ diag' = diag
                ELSE pc' = AfterKillError /\ diag' = diag \cup {"kill_failed"}
       ELSE pc' = AfterForward /\ UNCHANGED <<kills, diag>>
    /\ UNCHANGED <<arg, parsed, cfg, reason, envDisable, launched, posts,
                   reply, exitCode>>
    /\ UNCHANGED <<child, childEnd, handler, sigDelivered, sigLost,
                   sigRunning, forkResult>>
    /\ UNCHANGED gateVars

\* `child.wait().await` after the forward.
WaitAfterTerm ==
    /\ pc = "wait_after_term"
    /\ Reap

\* ------------------------------------------------ the child and SIGTERM

\* The child terminates, by exit or by a signal.
ChildExits ==
    /\ child = "running"
    /\ pc \notin Terminal
    /\ child' = "zombie"
    /\ \E t \in Terminations : childEnd' = t
    /\ UNCHANGED <<arg, parsed, cfg, reason, envDisable, pc, launched, posts,
                   reply, exitCode, diag>>
    /\ UNCHANGED <<handler, sigPending, sigDelivered, sigLost, sigRunning,
                   kills, forkResult>>
    /\ UNCHANGED gateVars

\* A SIGTERM reaches the supervisor while fork_with_sigterm holds the child
\* and the handler is installed: the stream is notified (notifications
\* coalesce).
SigtermHandled ==
    /\ pc \in {"select", "wait_after_term"}
    /\ handler
    /\ sigDelivered < MaxSigterms
    /\ sigDelivered' = sigDelivered + 1
    /\ sigPending' = TRUE
    /\ sigRunning' = (sigRunning \/ child = "running")
    /\ UNCHANGED <<arg, parsed, cfg, reason, envDisable, pc, launched, posts,
                   reply, exitCode, diag>>
    /\ UNCHANGED <<child, childEnd, handler, sigLost, kills, forkResult>>
    /\ UNCHANGED gateVars

\* A SIGTERM reaches the supervisor after the spawn and before the handler is
\* installed.  It takes its default disposition: the supervisor is killed,
\* or, when it runs as the init process of its pid namespace, the signal is
\* dropped.
SigtermUnhandled ==
    /\ pc = "spawned"
    /\ ~handler
    /\ sigDelivered < MaxSigterms
    /\ sigDelivered' = sigDelivered + 1
    /\ sigLost' = IF child = "running" THEN sigLost + 1 ELSE sigLost
    /\ sigRunning' = (sigRunning \/ child = "running")
    /\ \E isInit \in BOOLEAN : pc' = IF isInit THEN pc ELSE "killed"
    /\ UNCHANGED <<arg, parsed, cfg, reason, envDisable, launched, posts,
                   reply, exitCode, diag>>
    /\ UNCHANGED <<child, childEnd, handler, sigPending, kills, forkResult>>
    /\ UNCHANGED gateVars

\* ------------------------------------------- send_shutdown and the exit

\* What the shutdown endpoint may do with the request: answer (in time, with
\* some outcome) or never answer.  Outcomes of an answered request: a 2xx
\* status, another status, a connection error.
Replies == {"answers", "hang"}
Outcomes == {"2xx", "non2xx", "error"}

\* send_shutdown(authority): the POST /shutdown is issued and awaited.
SendShutdown ==
    /\ pc = "fork_returned"
    /\ pc' = "shutdown_wait"
    /\ posts' = posts + 1
    /\ \E r \in Replies : reply' = r
    /\ UNCHANGED <<arg, parsed, cfg, reason, envDisable, launched, exitCode,
                   diag>>
    /\ UNCHANGED childVars
    /\ UNCHANGED gateVars

\* The request completes, its result is dropped (`let _ =`), and main exits
\* by the exit-code policy.
ShutdownReturns ==
    /\ pc = "shutdown_wait"
    /\ reply = "answers"
    /\ \E o \in Outcomes : reply' = o
    /\ pc' = "exited"
    /\ exitCode' = ExitPolicy(forkResult)
    /\ UNCHANGED <<arg, parsed, cfg, reason, envDisable, launched, posts,
                   diag>>
    /\ UNCHANGED childVars
    /\ UNCHANGED gateVars

\* --------------------------------------------------- main: after the match

\* main reaches `if let Some(cmd) = cmd { exec(cmd, args) }`: after the
\* match when the check was skipped, after the gate when --shutdown is not
\* set.
AtExec == pc = "after_match" \/ (pc = "after_gate" /\ ~Supervise(cfg))

\* A failed exec reported as "unavailable".
ExecFailCodeUnavailable == EX_UNAVAILABLE

\* The code exec leaves with when the image cannot be replaced.
ExecFailCode == EX_OSERR

\* exec replaces the process image: nothing of main runs afterwards.
ExecOk ==
    /\ AtExec
    /\ cfg.hasCmd
    /\ pc' = "execed"
    /\ launched' = "exec"
    /\ UNCHANGED <<arg, parsed, cfg, reason, envDisable, posts, reply,
                   exitCode, diag>>
    /\ UNCHANGED childVars
    /\ UNCHANGED gateVars

\* exec returns an error: a diagnostic and process::exit(EX_OSERR).
ExecFails ==
    /\ AtExec
    /\ cfg.hasCmd
    /\ pc' = "exited"
    /\ launched' = "exec"
    /\ exitCode' = ExecFailCode
    /\ diag' = diag \cup {"exec_failed"}
    /\ UNCHANGED <<arg, parsed, cfg, reason, envDisable, posts, reply>>
    /\ UNCHANGED childVars
    /\ UNCHANGED gateVars

\* No CMD: main returns.
MainReturns ==
    /\ AtExec
    /\ ~cfg.hasCmd
    /\ pc' = "exited"
    /\ exitCode' = 0
    /\ UNCHANGED <<arg, parsed, cfg, reason, envDisable, launched, posts,
                   reply, diag>>
    /\ UNCHANGED childVars
    /\ UNCHANGED gateVars

\* ------------------------------------------------------- specifications
Next ==
    \/ SkipDisabled
    \/ EnterGate
    \/ GetResponds
    \/ GetFails
    \/ GetTimesOut
    \/ SleepDone
    \/ TimeoutFires
    \/ Tick
    \/ SpawnOk
    \/ SpawnFails
    \/ RegisterSigterm
    \/ SelectChild
    \/ SelectSigterm
    \/ WaitAfterTerm
    \/ ChildExits
    \/ SigtermHandled
    \/ SigtermUnhandled
    \/ SendShutdown
    \/ ShutdownReturns
    \/ ExecOk
    \/ ExecFails
    \/ MainReturns

Spec == Init /\ [][Next]_vars

\* The value parser on its own, over the values of ParseInputs.
ParseNext == ParseArg

ParseSpec == ParseInit /\ [][ParseNext]_vars

\* The supervisor's own steps are taken when they can be (one task on a
\* running executor), timers run, and a request the endpoint answers
\* completes.  Nothing makes the endpoints answer, the child exit, or a
\* SIGTERM arrive.
FairSpec ==
    /\ Spec
    /\ WF_vars(SkipDisabled \/ EnterGate)
    /\ WF_vars(Tick)
    /\ WF_vars(GetTimesOut)
    /\ WF_vars(TimeoutFires)
    /\ WF_vars(SpawnOk \/ SpawnFails)
    /\ WF_vars(RegisterSigterm)
    /\ WF_vars(SelectChild \/ SelectSigterm)
    /\ WF_vars(WaitAfterTerm)
    /\ WF_vars(SendShutdown)
    /\ WF_vars(ShutdownReturns)
    /\ WF_vars(ExecOk \/ ExecFails \/ MainReturns)

\* ----------------------------------------------------------------- claims

Disabled == reason # NoReason /\ reason # Unread
TimeoutSet == cfg.timeout # None /\ cfg.timeout # 0
Ended == pc \in {"exited", "execed"}

\* C1: with no disable override, CMD is launched (spawned or exec'd) only
\* after a GET /ready was answered 2xx, or after a configured non-zero
\* timeout has run out with timeout-fatal false, whatever the endpoint
\* answered before.
C1_GateBeforeLaunch ==
    (launched # "none" /\ ~envDisable) =>
        \/ gate = "ready" /\ got2xx
        \/ /\ gate = "timeout"
           /\ TimeoutSet
           /\ elapsed = cfg.timeout
           /\ ~cfg.timeoutFatal

C1_Witness ==
    /\ launched = "spawn"
    /\ ~envDisable
    /\ gate = "ready"
    /\ notReady = 2

\* C2: the POST /shutdown is issued only once fork_with_sigterm has returned:
\* never while the child runs or is not yet waited for, and never before the
\* spawn was tried, in every interleaving of child exit and SIGTERM.
C2_ShutdownAfterChild ==
    posts > 0 => child \in {"reaped", "spawn_failed"}

C2_Witness ==
    /\ posts = 1
    /\ child = "reaped"
    /\ kills = 1
    /\ sigDelivered = 2

\* C3 (as claimed): every run with the shutdown flag set issues the POST
\* /shutdown exactly once, also when the child's status is not known.  Runs
\* ended by the fatal timeout are left out: they supervise nothing.
C3_ShutdownExactlyOnce ==
    /\ posts <= 1
    /\ (cfg.shutdown /\ Ended /\ ~(gate = "timeout" /\ cfg.timeoutFatal))
          => posts = 1

\* C4 (as claimed): with a disable variable not empty no GET /ready is
\* issued and the deadline timer is not armed, and with the shutdown flag
\* CMD is spawned as a supervised child and the POST /shutdown is sent.
C4_DisabledStillSupervises ==
    envDisable =>
        /\ requests = 0
        /\ deadline = Off
        /\ elapsed = 0
        /\ (cfg.shutdown /\ launched # "none") => launched = "spawn"
        /\ (cfg.shutdown /\ Ended) => posts = 1

\* The exit code the policy is to give, from how the child ended.
C5_Expected ==
    IF child = "reaped" /\ forkResult.ok /\ childEnd.kind = "code"
    THEN childEnd.val
    ELSE EX_OSERR

\* C5: in fork-and-wait mode the final exit code is the child's exit code
\* when it has one, and 71 when it has none (killed by a signal, wait error,
\* spawn failure), whatever the outcome of the shutdown request.
C5_ExitCodePropagation ==
    (pc = "exited" /\ launched = "spawn") =>
        /\ reply \in Outcomes
        /\ exitCode = C5_Expected

C5_Witness ==
    /\ pc = "exited"
    /\ launched = "spawn"
    /\ childEnd = [kind |-> "code", val |-> 7, core |-> FALSE]
    /\ forkResult.ok
    /\ reply = "error"
    /\ exitCode = 7

\* C6, in states: the timer wins only when a non-zero timeout is set and has
\* run out; a fatal timeout ends the process with 69, CMD not launched and
\* no POST /shutdown; a non-fatal one never ends it before CMD is launched.
C6_TimerOutcome ==
    gate = "timeout" =>
        /\ ~Disabled
        /\ TimeoutSet
        /\ elapsed = cfg.timeout
        /\ "timeout" \in diag
        /\ cfg.timeoutFatal =>
              /\ pc = "exited"
              /\ exitCode = EX_UNAVAILABLE
              /\ launched = "none"
              /\ posts = 0
        /\ ~cfg.timeoutFatal =>
              /\ pc # "exited" \/ launched # "none"
              /\ exitCode # EX_UNAVAILABLE

\* C6: with a non-zero timeout and no disable override the gate is left in
\* the end, by the timer unless the endpoint answers 2xx; the timer's
\* outcome is C6_TimerOutcome, and a non-fatal timeout leads to the launch
\* of CMD.
C6_Deadline ==
    /\ [](C6_TimerOutcome)
    /\ (pc = "gate" /\ TimeoutSet) ~> (gate = "timeout" \/ got2xx)
    /\ (gate = "timeout" /\ ~cfg.timeoutFatal) ~> (launched # "none")

C6_Witness ==
    /\ gate = "timeout"
    /\ cfg.timeoutFatal
    /\ exitCode = EX_UNAVAILABLE
    /\ notReady = 2
    /\ ~got2xx

\* C7 (as claimed): a SIGTERM that reaches the supervisor while the child
\* runs is forwarded to the child exactly once (it waits on the stream until
\* then), the supervisor lives on, and its exit code is the child's.
C7_SigtermForwardedOnce ==
    /\ kills <= 1
    /\ sigRunning => (pc # "killed" /\ (sigPending \/ kills = 1))
    /\ (pc = "exited" /\ launched = "spawn") => exitCode = C5_Expected

\* C8 (as claimed): no SIGTERM that arrives while the child runs finds the
\* handler missing, so none is lost and none kills the supervisor.
C8_NoSigtermLost ==
    /\ sigLost = 0
    /\ pc # "killed"

\* C9 (as claimed): once fork_with_sigterm has returned, the supervisor
\* exits in the end, whatever the shutdown endpoint does.
C9_ShutdownNeverBlocks ==
    (pc = "fork_returned") ~> (pc = "exited")

\* C10: when await_ready returns after N attempts that were not ready it has
\* issued N+1 GET /ready requests and slept N times for the configured
\* backoff each, and its last answer was a 2xx; while it loops every attempt
\* that was not ready (another status, an error, the 5 s timeout) is followed
\* by one sleep.
C10_ReadinessLoop ==
    /\ sleeps = notReady
    /\ sleptTotal = notReady * cfg.backoff
    /\ poller = "inflight" =>
          requests = notReady + 1 /\ reqTimer \in 0..TIMEOUT
    /\ poller = "sleeping" =>
          requests = notReady /\ sleepTimer \in 0..cfg.backoff
    /\ gate = "ready" => requests = notReady + 1 /\ got2xx
    /\ got2xx => gate = "ready"

C10_Witness ==
    /\ gate = "ready"
    /\ pc = "after_gate"
    /\ notReady = 2
    /\ requests = 3
    /\ sleptTotal = 2
    /\ "timeout" \notin diag

\* C11: with no timeout, or a timeout of zero, the deadline is never armed:
\* the timer never wins, the timeout diagnostic is never printed, the
\* process never exits with 69, and a run that was not disabled is past the
\* gate, and launches CMD, only after a 2xx answer from /ready.
C11_NoDeadline ==
    ~TimeoutSet =>
        /\ deadline = Off
        /\ elapsed = 0
        /\ gate # "timeout"
        /\ "timeout" \notin diag
        /\ exitCode # EX_UNAVAILABLE
        /\ (~Disabled /\ pc \notin {"start", "gate"}) =>
              gate = "ready" /\ got2xx
        /\ (~Disabled /\ ~got2xx) => launched = "none"

C11_Witness ==
    /\ cfg.timeout = 0
    /\ launched = "spawn"
    /\ gate = "ready"
    /\ notReady = 2
    /\ pc = "exited"

\* C12: when the spawn fails fork_with_sigterm returns Ok with the status
\* from_raw(EX_OSERR), not an error; no SIGTERM handler is installed, no
\* signal is waited for or forwarded; POST /shutdown is sent once, and after
\* it the process exits with 71.
C12_SpawnFailure ==
    child = "spawn_failed" =>
        /\ forkResult.ok
        /\ forkResult.raw = EX_OSERR
        /\ "fork_failed" \in diag
        /\ ~handler
        /\ ~sigPending
        /\ sigDelivered = 0
        /\ kills = 0
        /\ pc \in {"fork_returned", "shutdown_wait", "exited"}
        /\ posts = (IF pc = "fork_returned" THEN 0 ELSE 1)
        /\ pc = "exited" => exitCode = EX_OSERR /\ reply \in Outcomes

C12_Witness ==
    /\ child = "spawn_failed"
    /\ pc = "exited"
    /\ posts = 1
    /\ exitCode = EX_OSERR
    /\ reply = "non2xx"

\* C13, in states: once exec has been called no POST /shutdown is sent, no
\* child is spawned, no handler installed and no SIGTERM forwarded; the
\* replaced process has no exit code of the supervisor's, a failed exec has
\* exited with 71; and without --shutdown CMD is launched by exec only.
C13_ExecState ==
    /\ launched = "exec" =>
          /\ cfg.hasCmd
          /\ pc \in {"execed", "exited"}
          /\ posts = 0
          /\ reply = "none"
          /\ kills = 0
          /\ child = "none"
          /\ ~handler
          /\ forkResult = NoResult
          /\ pc = "execed" => exitCode = None
          /\ pc = "exited" => exitCode = EX_OSERR /\ "exec_failed" \in diag
    /\ (~cfg.shutdown /\ launched # "none") => launched = "exec"

\* C13: exec mode. A successful exec is terminal, no step of the supervisor
\* follows it; what holds after exec was called is C13_ExecState.
C13_ExecMode ==
    /\ [](C13_ExecState)
    /\ [][pc # "execed"]_vars

C13_Witness ==
    /\ ~cfg.shutdown
    /\ cfg.hasCmd
    /\ launched = "exec"
    /\ pc = "exited"
    /\ exitCode = EX_OSERR
    /\ gate = "ready"

\* The decimal digits of a natural number.
RECURSIVE NatDigits(_)
NatDigits(n) ==
    IF n < 10 THEN <<n>> ELSE NatDigits(n \div 10) \o <<n % 10>>

DecimalOf(n) == ToChars(NatDigits(n))

Parsed(ms) == [ok |-> TRUE, ms |-> ms]

\* The units and the milliseconds each one stands for.
C14_Factors ==
    {<<<<"m", "s">>, 1>>, <<<<"s">>, 1000>>, <<<<"m">>, 60000>>,
     <<<<"h">>, 3600000>>, <<<<"d">>, 86400000>>}

C14_Magnitudes == {0, 1, 10, 12, 24}

\* The largest u64 whose thousandfold is a u64: 18446744073709551.
C14_MaxSeconds == <<1, 8, 4, 4, 6, 7, 4, 4, 0, 7, 3, 7, 0, 9, 5, 5, 1>>

\* C14: the decimal string of a magnitude m followed by a unit, with or
\* without whitespace around it, parses to m times the unit's factor in
\* milliseconds (factors 1, 1000, 60000, 3600000, 86400000) when the
\* product is a u64: checked on small magnitudes against the product, on
\* the large ones with ms (the magnitude itself, up to u64::MAX) and with s
\* (the magnitude followed by three zeros); "0" alone and "0s" parse to
\* zero.
C14_ParsesProduct ==
    parsed # <<>> =>
        \A l \in Pads, r \in Pads :
            /\ \A m \in C14_Magnitudes, uf \in C14_Factors :
                  arg = l \o DecimalOf(m) \o uf[1] \o r =>
                      parsed[1] = Parsed(NatDigits(m * uf[2]))
            /\ \A n \in MagnitudeValues :
                  (/\ Leq(n, U64_MAX)
                   /\ arg = l \o ToChars(n) \o <<"m", "s">> \o r)
                      => parsed[1] = Parsed(n)
            /\ \A n \in MagnitudeValues :
                  (/\ n # <<0>>
                   /\ Leq(n, C14_MaxSeconds)
                   /\ arg = l \o ToChars(n) \o <<"s">> \o r)
                      => parsed[1] = Parsed(n \o <<0, 0, 0>>)
            /\ arg = l \o <<"0">> \o r => parsed[1] = Parsed(<<0>>)
            /\ arg = l \o <<"0", "s">> \o r => parsed[1] = Parsed(<<0>>)

C14_Witness ==
    /\ arg = <<"\t", "\n", "1", "0", "d", " ">>
    /\ parsed = <<Parsed(<<8, 6, 4, 0, 0, 0, 0, 0, 0>>)>>

\* The value without the whitespace around it, the place of its last digit
\* (0 when it has none), and what stands up to and after that digit.
C15_Value == trim(arg)

C15_LastDigit ==
    IF \E i \in 1..Len(C15_Value) : is_ascii_digit(C15_Value[i])
    THEN CHOOSE i \in 1..Len(C15_Value) :
            /\ is_ascii_digit(C15_Value[i])
            /\ \A j \in (i + 1)..Len(C15_Value) :
                  ~is_ascii_digit(C15_Value[j])
    ELSE 0

C15_Magnitude == SubSeq(C15_Value, 1, C15_LastDigit)
C15_Suffix == SubSeq(C15_Value, C15_LastDigit + 1, Len(C15_Value))

\* C15 (as claimed): parse_duration returns InvalidDuration for a string
\* that is empty or all whitespace, for a bare integer that is not zero,
\* for a suffix outside ms, s, m, h, d (after a zero magnitude too), and for
\* a magnitude part that holds a character that is not a digit; a value
\* without a unit is accepted only when it is zeros.
C15_Rejects ==
    parsed # <<>> =>
        /\ (\A i \in 1..Len(arg) : arg[i] \in Whitespace) =>
              parsed[1] = InvalidDuration
        /\ C15_LastDigit = 0 => parsed[1] = InvalidDuration
        /\ (/\ C15_Suffix = <<>>
            /\ \E i \in 1..Len(C15_Magnitude) : C15_Magnitude[i] # "0") =>
              parsed[1] = InvalidDuration
        /\ C15_Suffix \notin (UnitStrings \cup {<<>>}) =>
              parsed[1] = InvalidDuration
        /\ (\E i \in 1..Len(C15_Magnitude) :
                ~is_ascii_digit(C15_Magnitude[i])) =>
              parsed[1] = InvalidDuration
        /\ (parsed[1].ok /\ C15_Suffix = <<>>) =>
              \A i \in 1..Len(C15_Magnitude) : C15_Magnitude[i] = "0"

\* The largest magnitude whose product with the unit's factor is a u64:
\* u64::MAX divided by 1, 1000, 60000, 3600000 and 86400000.
C16_MaxMagnitude(u) ==
    CASE u = <<"m", "s">> -> U64_MAX
      [] u = <<"s">> -> <<1, 8, 4, 4, 6, 7, 4, 4, 0, 7, 3, 7, 0, 9, 5, 5, 1>>
      [] u = <<"m">> -> <<3, 0, 7, 4, 4, 5, 7, 3, 4, 5, 6, 1, 8, 2, 5>>
      [] u = <<"h">> -> <<5, 1, 2, 4, 0, 9, 5, 5, 7, 6, 0, 3, 0>>
      [] u = <<"d">> -> <<2, 1, 3, 5, 0, 3, 9, 8, 2, 3, 3, 4>>

\* C16: a magnitude whose product with the unit's factor is above u64::MAX
\* is rejected with InvalidDuration, never wrapped or clamped (u64::MAX
\* with s, m, h or d; the magnitude after the largest one that fits); a
\* product up to u64::MAX is accepted: u64::MAX with ms is u64::MAX
\* milliseconds, and 213503982334d is 18446744073657600000 ms.
C16_Overflow ==
    parsed # <<>> =>
        /\ parsed[1].ok => Leq(parsed[1].ms, U64_MAX)
        /\ \A l \in Pads, r \in Pads :
            /\ \A n \in MagnitudeValues, u \in UnitStrings :
                  arg = l \o ToChars(n) \o u \o r =>
                      IF Leq(n, C16_MaxMagnitude(u))
                      THEN parsed[1].ok
                      ELSE parsed[1] = InvalidDuration
            /\ \A u \in UnitStrings \ {<<"m", "s">>} :
                  arg = l \o ToChars(U64_MAX) \o u \o r =>
                      parsed[1] = InvalidDuration
            /\ arg = l \o ToChars(U64_MAX) \o <<"m", "s">> \o r =>
                  parsed[1] = Parsed(U64_MAX)
            /\ arg = l \o ToChars(C16_MaxMagnitude(<<"d">>)) \o <<"d">> \o r =>
                  parsed[1] = Parsed(<<1, 8, 4, 4, 6, 7, 4, 4, 0, 7, 3, 6, 5,
                                       7, 6, 0, 0, 0, 0, 0>>)

C16_Witness ==
    /\ arg = ToChars(U64_MAX) \o <<"s">>
    /\ parsed = <<InvalidDuration>>

\* What main does after the gate works on: everything but the record of how
\* the gate was passed and the diagnostics.
Down ==
    [pc |-> pc, launched |-> launched, child |-> child,
     childEnd |-> childEnd, handler |-> handler, sigPending |-> sigPending,
     sigDelivered |-> sigDelivered, sigLost |-> sigLost,
     sigRunning |-> sigRunning, kills |-> kills, forkResult |-> forkResult,
     posts |-> posts, reply |-> reply, exitCode |-> exitCode]

\* Down when the gate has just been passed.
DownStart ==
    [pc |-> "after_gate", launched |-> "none", child |-> "none",
     childEnd |-> NoTermination, handler |-> FALSE, sigPending |-> FALSE,
     sigDelivered |-> 0, sigLost |-> 0, sigRunning |-> FALSE, kills |-> 0,
     forkResult |-> NoResult, posts |-> 0, reply |-> "none",
     exitCode |-> None]

\* The steps after the gate as a function of the configuration c and of
\* Down's value d alone: exec, or spawn, SIGTERM forwarding, POST /shutdown
\* and the exit code, with the child's and the signals' own steps.
DownSteps(d, c) ==
    LET at(p) == d.pc = p
        sig == [d EXCEPT !.sigDelivered = d.sigDelivered + 1,
                         !.sigRunning = d.sigRunning \/ d.child = "running"]
        reaped == {[d EXCEPT !.pc = "fork_returned", !.child = "reaped",
                             !.forkResult = r] :
                      r \in {[ok |-> TRUE, raw |-> WaitStatus(d.childEnd)],
                             [ok |-> FALSE, raw |-> None]}}
    IN  UNION {
        IF at("after_gate") /\ c.shutdown
        THEN {[d EXCEPT !.pc = "spawned", !.child = "running",
                        !.launched = "spawn"],
              [d EXCEPT !.pc = "fork_returned", !.child = "spawn_failed",
                        !.launched = "spawn",
                        !.forkResult = [ok |-> TRUE, raw |-> EX_OSERR]]}
        ELSE {},
        IF at("after_gate") /\ ~c.shutdown /\ c.hasCmd
        THEN {[d EXCEPT !.pc = "execed", !.launched = "exec"],
              [d EXCEPT !.pc = "exited", !.launched = "exec",
                        !.exitCode = EX_OSERR]}
        ELSE {},
        IF at("after_gate") /\ ~c.shutdown /\ ~c.hasCmd
        THEN {[d EXCEPT !.pc = "exited", !.exitCode = 0]}
        ELSE {},
        IF at("spawned")
        THEN {[d EXCEPT !.pc = "select", !.handler = TRUE]}
        ELSE {},
        IF (at("select") \/ at("wait_after_term")) /\ d.child = "zombie"
        THEN reaped
        ELSE {},
        IF at("select") /\ d.sigPending
        THEN {[d EXCEPT !.pc = "wait_after_term", !.sigPending = FALSE,
                        !.kills = IF d.child \in {"running", "zombie"}
                                  THEN d.kills + 1 ELSE d.kills]}
        ELSE {},
        IF d.child = "running" /\ d.pc \notin {"exited", "execed", "killed"}
        THEN {[d EXCEPT !.child = "zombie", !.childEnd = t] :
                 t \in Terminations}
        ELSE {},
        IF /\ at("select") \/ at("wait_after_term")
           /\ d.sigDelivered < MaxSigterms
        THEN {[sig EXCEPT !.sigPending = TRUE]}
        ELSE {},
        IF at("spawned") /\ d.sigDelivered < MaxSigterms
        THEN {[sig EXCEPT !.pc = p,
                          !.sigLost = IF d.child = "running"
                                      THEN d.sigLost + 1 ELSE d.sigLost] :
                 p \in {"spawned", "killed"}}
        ELSE {},
        IF at("fork_returned")
        THEN {[d EXCEPT !.pc = "shutdown_wait", !.posts = d.posts + 1,
                        !.reply = r] : r \in {"answers", "hang"}}
        ELSE {},
        IF at("shutdown_wait") /\ d.reply = "answers"
        THEN {[d EXCEPT !.pc = "exited", !.reply = o,
                        !.exitCode = ExitPolicy(d.forkResult)] :
                 o \in {"2xx", "non2xx", "error"}}
        ELSE {}}

\* The gate was passed, by a 2xx answer or by the timer.
PastGate == gate \in {"ready", "timeout"}

\* C17, in states: when the gate has just been passed main is in the same
\* state whichever way it was passed, and every step DownSteps gives can be
\* taken.
C17_SameStart ==
    PastGate =>
        /\ pc = "after_gate" => Down = DownStart
        /\ \A d \in DownSteps(Down, cfg) : ENABLED (Next /\ Down' = d)

\* C17: past the gate, whether by a 2xx answer or by a non-fatal timeout,
\* the steps main can take are those of DownSteps, which reads the
\* configuration and the state after the gate and not how the gate was
\* passed; and no step changes the record of how it was passed.
C17_TimeoutAsReady ==
    /\ [](C17_SameStart)
    /\ [][PastGate =>
            /\ Down' \in DownSteps(Down, cfg)
            /\ UNCHANGED <<cfg, gate, got2xx>>]_vars

C17_Witness ==
    /\ gate = "timeout"
    /\ ~cfg.timeoutFatal
    /\ pc = "exited"
    /\ launched = "spawn"
    /\ sigDelivered = 2
    /\ kills = 1
    /\ posts = 1
    /\ exitCode = 7

\* C18: a kill that fails is reported and nothing more: the supervisor goes
\* on to wait for the child, and only when the child has been reaped does
\* it send the one POST /shutdown and exit, with the code the exit-code
\* policy gives for the child's end.
C18_ForwardFailureNotFatal ==
    "kill_failed" \in diag =>
        /\ kills = 1
        /\ pc \in {"wait_after_term", "fork_returned", "shutdown_wait",
                   "exited"}
        /\ pc = "wait_after_term" =>
              child \in {"running", "zombie"} /\ posts = 0 /\ exitCode = None
        /\ pc # "wait_after_term" => child = "reaped"
        /\ posts = (IF pc \in {"shutdown_wait", "exited"} THEN 1 ELSE 0)
        /\ pc = "exited" => exitCode = C5_Expected

C18_Witness ==
    /\ "kill_failed" \in diag
    /\ pc = "exited"
    /\ child = "reaped"
    /\ posts = 1
    /\ childEnd = [kind |-> "code", val |-> 7, core |-> FALSE]
    /\ exitCode = 7

\* C19, in states: at most one SIGTERM is sent to the child; none before
\* the select has ended, and exactly one while the supervisor waits after a
\* forward.
C19_KillCount ==
    /\ kills <= 1
    /\ pc \in {"spawned", "select"} => kills = 0
    /\ pc = "wait_after_term" => kills = 1

\* C19: the select is not entered again. After the forward the supervisor's
\* only step is the end of child.wait(), whatever SIGTERMs arrive; a kill
\* is made only by the SIGTERM branch of the select, once; and when the
\* child's branch ends the select no SIGTERM has been or will be sent.
C19_RaceNotReentered ==
    /\ [](C19_KillCount)
    /\ [][pc = "wait_after_term" =>
            (/\ kills' = kills
             /\ pc' = pc \/ (pc' = "fork_returned" /\ child' = "reaped"))]_vars
    /\ [][kills' # kills =>
            (/\ pc = "select" /\ pc' = "wait_after_term"
             /\ sigPending /\ kills = 0)]_vars
    /\ [][(pc = "select" /\ pc' = "fork_returned") => kills' = 0]_vars
    /\ [][(pc \in {"fork_returned", "shutdown_wait", "exited"}) =>
            (kills' = kills)]_vars

C19_Witness ==
    /\ pc = "wait_after_term"
    /\ sigDelivered = 2
    /\ sigPending
    /\ kills = 1
    /\ child = "running"

\* C20: kill is called only on a child the supervisor has not reaped: in
\* every step that sends SIGTERM the child handle still has its pid, the
\* child running or ended and not yet waited for, and that step does not
\* reap it; a child that was reaped, or never spawned, is never signalled
\* afterwards.
C20_NoKillAfterReap ==
    /\ [][kills' # kills =>
            (child \in {"running", "zombie"} /\ child' = child)]_vars
    /\ [][(child \in {"none", "reaped", "spawn_failed"}) =>
            (kills' = kills)]_vars

C20_Witness ==
    /\ pc = "wait_after_term"
    /\ kills = 1
    /\ child = "zombie"
    /\ sigDelivered = 1
    /\ ~sigPending

====
